---- MODULE Spec2Model ----
(***************************************************************************)
(* Model of diskspace (src/src/main.rs): the recursive directory scan      *)
(* scan_directory and the part of main that calls it.                      *)
(*                                                                         *)
(* The file system is an input: a finite ordered tree chosen in Init and   *)
(* never changed afterwards (a scan is a function of the snapshot).  Node  *)
(* 0 is the start path; nodes 1..n are the entries below it, numbered in   *)
(* the order read_dir yields them, parents before children.  The recursion *)
(* of scan_directory is an explicit stack of frames, one step per          *)
(* directory entry.                                                        *)
(*                                                                         *)
(* File sizes are at most MaxSize and there are at most MaxNodes entries,  *)
(* so every sum stays far below 2^64 and the u64/usize additions of the    *)
(* code never wrap or panic in the model.                                  *)
(***************************************************************************)
EXTENDS Integers, Sequences, FiniteSets, TLC

\* ------------------------------------------------------------------ bounds
MaxNodes == 3
MaxSize == 1

\* ------------------------------------------------------- generic helpers
RECURSIVE SumOver(_, _)
SumOver(S, f) ==
    IF S = {} THEN 0
    ELSE LET x == CHOOSE y \in S : TRUE IN f[x] + SumOver(S \ {x}, f)

Range(s) == {s[i] : i \in 1..Len(s)}

\* ------------------------------------------------------------ characters
\* A name is a sequence of characters; InvalidByte stands for a byte that is
\* not valid UTF-8 (OsStr::to_str returns None on a string holding it).
InvalidByte == "xFF"
Dot == "."
Slash == "/"
NodeChar == <<"1", "2", "3", "4", "5", "6", "7", "8", "9">>

\* char::to_lowercase on the characters the model uses
LowerChar(c) == IF c = "T" THEN "t" ELSE c

\* str::to_lowercase (line 164)
ToLowercase(s) == [i \in 1..Len(s) |-> LowerChar(s[i])]

\* OsStr::to_str / Path::to_str (lines 141, 162): None (<<>>) when the string
\* holds a byte that is not UTF-8, Some(s) (<<s>>) otherwise.
ToStr(s) == IF InvalidByte \in Range(s) THEN <<>> ELSE <<s>>

\* ----------------------------------------------------------- file system
VARIABLES fs, stack, dir_infos, err, mainpc, total_info, report

vars == <<fs, stack, dir_infos, err, mainpc, total_info, report>>

FileForms == {"plain", "lower", "upper"}

\* What an entry can be.  kind: "dir", "file" (regular file), "other" (neither
\* is_dir() nor is_file(): broken link, socket, ...), "missing" (start path
\* only).  list: whether read_dir succeeds.  utf8: whether the name is valid
\* UTF-8.  meta: whether fs::metadata succeeds.
DirRecs ==
    [kind : {"dir"}, list : {"ok", "denied"}, utf8 : BOOLEAN,
     form : {"plain"}, size : {0}, meta : {"ok"}]
FileRecs ==
    [kind : {"file"}, list : {"ok"}, utf8 : {TRUE},
     form : FileForms, size : 0..MaxSize, meta : {"ok"}]
    \cup
    [kind : {"file"}, list : {"ok"}, utf8 : {TRUE},
     form : {"lower"}, size : {0}, meta : {"err"}]
OtherRecs ==
    [kind : {"other"}, list : {"ok"}, utf8 : {TRUE},
     form : {"plain"}, size : {0}, meta : {"ok"}]
EntryRecs == DirRecs \cup FileRecs \cup OtherRecs
RootRecs ==
    [kind : {"dir"}, list : {"ok", "denied"}, utf8 : {TRUE},
     form : {"plain"}, size : {0}, meta : {"ok"}]
    \cup
    [kind : {"file", "missing"}, list : {"ok"}, utf8 : {TRUE},
     form : {"plain"}, size : {0}, meta : {"ok"}]

\* Parent functions of the ordered trees on 0..n whose nodes are numbered in
\* depth-first preorder (so that the children of a node, taken by increasing
\* number, are in read_dir order, and every ordered tree appears once).
Shapes(n) ==
    {p \in [1..n -> 0..(n - 1)] :
        \A i \in 1..n :
            /\ p[i] < i
            /\ \A j \in (p[i] + 1)..(i - 1) : p[j] >= p[i]}

Nodes == DOMAIN fs
Root == 0

Children(d) == {c \in Nodes \ {Root} : fs[c].parent = d}

RECURSIVE SortedSeq(_)
SortedSeq(S) ==
    IF S = {} THEN <<>>
    ELSE LET m == CHOOSE x \in S : \A y \in S : x <= y
         IN <<m>> \o SortedSeq(S \ {m})

\* fs::read_dir(dir) (line 119): the entries of dir in the order yielded
Entries(d) == SortedSeq(Children(d))

\* The name of an entry (last component of entry.path(), line 121)
Name(n) ==
    LET d == NodeChar[n + 1] IN
    IF fs[n].kind = "dir" THEN
        IF fs[n].utf8 THEN <<d>> ELSE <<d, InvalidByte>>
    ELSE CASE fs[n].form = "plain" -> <<d>>
           [] fs[n].form = "lower" -> <<d, Dot, "t">>
           [] fs[n].form = "upper" -> <<d, Dot, "T">>

\* entry.path() (line 121): the components from the start path down
RECURSIVE PathOf(_)
PathOf(n) ==
    IF n = Root THEN <<Name(Root)>>
    ELSE Append(PathOf(fs[n].parent), Name(n))

\* The path as one string, components joined by the separator
RECURSIVE Join(_)
Join(p) ==
    IF Len(p) = 1 THEN p[1]
    ELSE Join(SubSeq(p, 1, Len(p) - 1)) \o <<Slash>> \o p[Len(p)]

\* path.to_str() (line 141)
PathToStr(p) == ToStr(Join(p))

\* IsDir with the test left out
IsDirUnchecked(n) == TRUE

\* Path::is_dir (lines 118, 123) and Path::is_file (line 144)
IsDir(n) == fs[n].kind = "dir"
IsFile(n) == fs[n].kind = "file"

\* fs::read_dir(dir) (line 119) succeeds on a directory that can be listed
ReadDirSucceeds(n) == fs[n].kind = "dir" /\ fs[n].list = "ok"

\* fs::metadata(&path) (line 146)
MetadataOk(n) == fs[n].meta = "ok"

\* Path::extension (line 161): the part of the file name after its last dot;
\* None when there is no dot or the only dot is the first character.
LastDot(name) ==
    IF \E i \in 1..Len(name) : name[i] = Dot
    THEN CHOOSE i \in 1..Len(name) :
            /\ name[i] = Dot
            /\ \A j \in (i + 1)..Len(name) : name[j] # Dot
    ELSE 0
PathExtension(name) ==
    IF LastDot(name) <= 1 THEN <<>>
    ELSE <<SubSeq(name, LastDot(name) + 1, Len(name))>>

\* Extension without the to_lowercase of line 164
ExtensionCaseKept(name) ==
    LET e == PathExtension(name)
        s == IF e = <<>> THEN <<>> ELSE ToStr(e[1])
    IN IF s = <<>> THEN <<>> ELSE s[1]

\* lines 161-164: extension().and_then(to_str).unwrap_or("").to_lowercase()
Extension(name) ==
    LET e == PathExtension(name)
        s == IF e = <<>> THEN <<>> ELSE ToStr(e[1])
    IN ToLowercase(IF s = <<>> THEN <<>> ELSE s[1])

\* -------------------------------------------------------------- DirInfo
\* Option<T>: None is <<>>, Some(x) is <<x>>.
None == <<>>
Some(x) == <<x>>

\* DirInfo::new (lines 18-25); file_types is a map, here a function
DirInfoNew ==
    [size |-> 0, file_count |-> 0, largest_file |-> None, file_types |-> <<>>]

\* *map.entry(k).or_insert(0) += v (lines 93, 166)
AddTo(map, k, v) ==
    IF k \in DOMAIN map THEN [map EXCEPT ![k] = @ + v]
    ELSE map @@ (k :> v)

\* lines 152-158: the largest file after a file of file_size at path
LargestAfterFile(largest_file, path, file_size) ==
    IF largest_file = None THEN Some([path |-> path, size |-> file_size])
    ELSE IF file_size > largest_file[1].size
         THEN Some([path |-> path, size |-> file_size])
         ELSE largest_file

\* AddFile without the increment of line 149
AddFileUncounted(cur, path, file_size) ==
    [size |-> cur.size + file_size,
     file_count |-> cur.file_count,
     largest_file |-> LargestAfterFile(cur.largest_file, path, file_size),
     file_types |-> AddTo(cur.file_types, Extension(path[Len(path)]), file_size)]

\* lines 147-166: current_info after a regular file whose metadata was read
AddFile(cur, path, file_size) ==
    [size |-> cur.size + file_size,
     file_count |-> cur.file_count + 1,
     largest_file |-> LargestAfterFile(cur.largest_file, path, file_size),
     file_types |-> AddTo(cur.file_types, Extension(path[Len(path)]), file_size)]

\* LargestAfterSubdir with >= for the > of line 132
LargestAfterSubdirOnTie(largest_file, sub_largest) ==
    IF sub_largest = None THEN largest_file
    ELSE IF largest_file = None THEN sub_largest
         ELSE IF sub_largest[1].size >= largest_file[1].size
              THEN sub_largest
              ELSE largest_file

\* lines 130-138: the largest file after merging a subdirectory's
LargestAfterSubdir(largest_file, sub_largest) ==
    IF sub_largest = None THEN largest_file
    ELSE IF largest_file = None THEN sub_largest
         ELSE IF sub_largest[1].size > largest_file[1].size
              THEN sub_largest
              ELSE largest_file

\* MergeSubdir without the addition of line 126
MergeSubdirSizeDropped(cur, subdir_info) ==
    [size |-> cur.size,
     file_count |-> cur.file_count + subdir_info.file_count,
     largest_file |->
        LargestAfterSubdir(cur.largest_file, subdir_info.largest_file),
     file_types |-> cur.file_types]

\* lines 126-138: current_info after the scan of a subdirectory returned
\* subdir_info.  file_types is not touched: the code merges no histogram.
MergeSubdir(cur, subdir_info) ==
    [size |-> cur.size + subdir_info.size,
     file_count |-> cur.file_count + subdir_info.file_count,
     largest_file |->
        LargestAfterSubdir(cur.largest_file, subdir_info.largest_file),
     file_types |-> cur.file_types]

\* InsertSubdir under a lossy conversion of the path, whatever its bytes
InsertSubdirLossy(infos, path, subdir_info) ==
    [x \in DOMAIN infos \cup {Join(path)} |->
        IF x = Join(path) THEN subdir_info ELSE infos[x]]

\* lines 141-143: BTreeMap::insert under path.to_str(), when there is one
InsertSubdir(infos, path, subdir_info) ==
    IF PathToStr(path) = None THEN infos
    ELSE LET k == PathToStr(path)[1]
         IN [x \in DOMAIN infos \cup {k} |->
                IF x = k THEN subdir_info ELSE infos[x]]

\* ---------------------------------------------------------------- state
\* stack: the active calls of scan_directory, innermost last.  A frame is
\*   node: the dir argument, pc: "enter" (line 116) or "loop" (line 119),
\*   it: the position of the read_dir iterator, info: current_info.
\* err: an Err(io::Error) is being returned to the innermost active call.
\* mainpc: where main is; total_info: the Ok value of line 42.
\* report: what main printed (None until lines 44-112 ran).
Top == stack[Len(stack)]

Frame(n) == [node |-> n, pc |-> "enter", it |-> 1, info |-> DirInfoNew]

Init ==
    /\ \E n \in 0..MaxNodes : \E p \in Shapes(n) :
       \E r \in RootRecs : \E f \in [1..n -> EntryRecs] :
          /\ r.kind # "dir" => n = 0
          /\ \A i \in 1..n : p[i] # 0 => f[p[i]].kind = "dir"
          /\ fs = [i \in 0..n |->
                     IF i = 0
                     THEN [kind |-> r.kind, list |-> r.list, utf8 |-> r.utf8,
                           form |-> r.form, size |-> r.size, meta |-> r.meta,
                           parent |-> 0]
                     ELSE [kind |-> f[i].kind, list |-> f[i].list,
                           utf8 |-> f[i].utf8, form |-> f[i].form,
                           size |-> f[i].size, meta |-> f[i].meta,
                           parent |-> p[i]]]
    /\ stack = <<>>
    /\ dir_infos = <<>>
    /\ err = FALSE
    /\ mainpc = "start"
    /\ total_info = None
    /\ report = None

\* lines 40-42: main creates the empty registry and calls scan_directory
MainCall ==
    /\ mainpc = "start"
    /\ mainpc' = "scanning"
    /\ stack' = <<Frame(Root)>>
    /\ dir_infos' = <<>>
    /\ UNCHANGED <<fs, err, total_info, report>>

\* line 172 seen from the caller: Ok(info) is returned by the innermost call.
\* The caller is either main (line 42) or the loop of the enclosing call,
\* which merges, registers and moves to the next entry (lines 125-143).
ReturnOk(info) ==
    IF Len(stack) = 1
    THEN /\ stack' = <<>>
         /\ total_info' = Some(info)
         /\ mainpc' = "scanned"
         /\ UNCHANGED dir_infos
    ELSE LET caller == stack[Len(stack) - 1] IN
         /\ stack' = Append(SubSeq(stack, 1, Len(stack) - 2),
                            [caller EXCEPT !.info = MergeSubdir(@, info),
                                           !.it = @ + 1])
         /\ dir_infos' = InsertSubdir(dir_infos, PathOf(Top.node), info)
         /\ UNCHANGED <<total_info, mainpc>>

\* ReturnErr that empties the registry on the way out
ReturnErrRollback ==
    /\ stack' = SubSeq(stack, 1, Len(stack) - 1)
    /\ err' = TRUE
    /\ dir_infos' = <<>>
    /\ UNCHANGED <<total_info, mainpc>>

\* An Err leaves the innermost call (the ? of lines 119, 120)
ReturnErr ==
    /\ stack' = SubSeq(stack, 1, Len(stack) - 1)
    /\ err' = TRUE
    /\ UNCHANGED <<dir_infos, total_info, mainpc>>

Running == mainpc = "scanning" /\ stack # <<>> /\ ~err

\* line 118 false: the path is no directory, the block is skipped (line 172)
NotADirectory ==
    /\ Running
    /\ Top.pc = "enter"
    /\ ~IsDir(Top.node)
    /\ ReturnOk(Top.info)
    /\ UNCHANGED <<fs, err, report>>

\* line 119: fs::read_dir(dir)? fails
ReadDirFails ==
    /\ Running
    /\ Top.pc = "enter"
    /\ IsDir(Top.node)
    /\ ~ReadDirSucceeds(Top.node)
    /\ ReturnErr
    /\ UNCHANGED <<fs, report>>

\* line 119: fs::read_dir(dir)? succeeds, the loop starts
ReadDirOk ==
    /\ Running
    /\ Top.pc = "enter"
    /\ IsDir(Top.node)
    /\ ReadDirSucceeds(Top.node)
    /\ stack' = [stack EXCEPT ![Len(stack)].pc = "loop"]
    /\ UNCHANGED <<fs, dir_infos, err, mainpc, total_info, report>>

InLoop == Running /\ Top.pc = "loop"
HasEntry == InLoop /\ Top.it <= Len(Entries(Top.node))
Entry == Entries(Top.node)[Top.it]

\* line 120: the iterator yields an Err (an I/O error while reading the
\* directory), at any position
EntryFails ==
    /\ InLoop
    /\ ReturnErr
    /\ UNCHANGED <<fs, report>>

\* VisitSubdir that registers the subdirectory before scanning it
VisitSubdirRegisteredEarly ==
    /\ HasEntry
    /\ IsDir(Entry)
    /\ stack' = Append(stack, Frame(Entry))
    /\ dir_infos' = InsertSubdir(dir_infos, PathOf(Entry), DirInfoNew)
    /\ UNCHANGED <<fs, err, mainpc, total_info, report>>

\* lines 123-125: the entry is a directory, scan_directory is called on it
VisitSubdir ==
    /\ HasEntry
    /\ IsDir(Entry)
    /\ stack' = Append(stack, Frame(Entry))
    /\ UNCHANGED <<fs, dir_infos, err, mainpc, total_info, report>>

\* lines 144-167: the entry is a regular file whose metadata is read
VisitFile ==
    /\ HasEntry
    /\ ~IsDir(Entry) /\ IsFile(Entry) /\ MetadataOk(Entry)
    /\ stack' = [stack EXCEPT
                   ![Len(stack)].info = AddFile(@, PathOf(Entry), fs[Entry].size),
                   ![Len(stack)].it = @ + 1]
    /\ UNCHANGED <<fs, dir_infos, err, mainpc, total_info, report>>

\* SkipUnreadable that counts the file as one of zero bytes
SkipUnreadableCounted ==
    /\ HasEntry
    /\ ~IsDir(Entry) /\ IsFile(Entry) /\ ~MetadataOk(Entry)
    /\ stack' = [stack EXCEPT
                   ![Len(stack)].info = AddFile(@, PathOf(Entry), 0),
                   ![Len(stack)].it = @ + 1]
    /\ UNCHANGED <<fs, dir_infos, err, mainpc, total_info, report>>

\* line 146: is_file() held but fs::metadata fails: nothing is done
SkipUnreadable ==
    /\ HasEntry
    /\ ~IsDir(Entry) /\ IsFile(Entry) /\ ~MetadataOk(Entry)
    /\ stack' = [stack EXCEPT ![Len(stack)].it = @ + 1]
    /\ UNCHANGED <<fs, dir_infos, err, mainpc, total_info, report>>

\* lines 123, 144: neither is_dir() nor is_file(): nothing is done
SkipOther ==
    /\ HasEntry
    /\ ~IsDir(Entry) /\ ~IsFile(Entry)
    /\ stack' = [stack EXCEPT ![Len(stack)].it = @ + 1]
    /\ UNCHANGED <<fs, dir_infos, err, mainpc, total_info, report>>

\* lines 119, 172: the iterator is exhausted, Ok(current_info) is returned
LoopEnd ==
    /\ InLoop
    /\ Top.it > Len(Entries(Top.node))
    /\ ReturnOk(Top.info)
    /\ UNCHANGED <<fs, err, report>>

\* PropagateErr that drops the error and goes on with the next entry
PropagateErrSwallowed ==
    /\ mainpc = "scanning" /\ err /\ stack # <<>>
    /\ err' = FALSE
    /\ stack' = [stack EXCEPT ![Len(stack)].it = @ + 1]
    /\ UNCHANGED <<fs, dir_infos, mainpc, total_info, report>>

\* line 125: scan_directory(&path, dir_infos)? got an Err: the enclosing call
\* returns it at once
PropagateErr ==
    /\ mainpc = "scanning" /\ err /\ stack # <<>>
    /\ stack' = SubSeq(stack, 1, Len(stack) - 1)
    /\ UNCHANGED <<fs, dir_infos, err, mainpc, total_info, report>>

\* line 42: scan_directory(...)? got an Err: main returns it, nothing printed
MainFail ==
    /\ mainpc = "scanning" /\ err /\ stack = <<>>
    /\ mainpc' = "failed"
    /\ UNCHANGED <<fs, stack, dir_infos, err, total_info, report>>

\* lines 90-95: the histograms of all registered directories, added up
RECURSIVE FileTypeTotals(_, _)
FileTypeTotals(infos, keys) ==
    IF keys = {} THEN <<>>
    ELSE LET k == CHOOSE x \in keys : TRUE
             rest == FileTypeTotals(infos, keys \ {k})
             m == infos[k].file_types
         IN [e \in DOMAIN rest \cup DOMAIN m |->
                (IF e \in DOMAIN rest THEN rest[e] ELSE 0)
                + (IF e \in DOMAIN m THEN m[e] ELSE 0)]

\* lines 44-112: the report (its rows as sets: the order and the top-k cuts
\* of the listing are not modelled)
MainReport ==
    /\ mainpc = "scanned"
    /\ mainpc' = "done"
    /\ report' = Some([size |-> total_info[1].size,
                       file_count |-> total_info[1].file_count,
                       dirs |-> {[path |-> k, size |-> dir_infos[k].size,
                                  file_count |-> dir_infos[k].file_count] :
                                    k \in DOMAIN dir_infos},
                       largest_files |->
                           {dir_infos[k].largest_file[1] :
                              k \in {x \in DOMAIN dir_infos :
                                       dir_infos[x].largest_file # None}},
                       file_type_totals |->
                           FileTypeTotals(dir_infos, DOMAIN dir_infos)])
    /\ UNCHANGED <<fs, stack, dir_infos, err, total_info>>

Next ==
    \/ MainCall
    \/ NotADirectory
    \/ ReadDirFails
    \/ ReadDirOk
    \/ EntryFails
    \/ VisitSubdir
    \/ VisitFile
    \/ SkipUnreadable
    \/ SkipOther
    \/ LoopEnd
    \/ PropagateErr
    \/ MainFail
    \/ MainReport

Spec == Init /\ [][Next]_vars

\* ------------------------------------------------- what a scan should see
\* Stated on the file system alone, without the operators of the scan.
SizeOf == [n \in Nodes |-> fs[n].size]
SubdirsOf(d) == {c \in Children(d) : fs[c].kind = "dir"}
ReadableFilesOf(d) ==
    {c \in Children(d) : fs[c].kind = "file" /\ fs[c].meta = "ok"}

RECURSIVE Ancestors(_)
Ancestors(n) ==
    IF n = Root THEN {} ELSE {fs[n].parent} \cup Ancestors(fs[n].parent)

\* the readable regular files anywhere below d
SubtreeFiles(d) ==
    {n \in Nodes : d \in Ancestors(n) /\ fs[n].kind = "file" /\ fs[n].meta = "ok"}
\* the directories anywhere below d
SubtreeDirs(d) == {n \in Nodes : d \in Ancestors(n) /\ fs[n].kind = "dir"}

\* the lowercased extension of a file, by the form of its name
LowerExtOf(n) ==
    CASE fs[n].form = "plain" -> <<>>
      [] fs[n].form = "lower" -> <<"t">>
      [] fs[n].form = "upper" -> <<"t">>

\* bytes per lowercased extension over a set of files
Histogram(F) ==
    [e \in {LowerExtOf(f) : f \in F} |->
        SumOver({f \in F : LowerExtOf(f) = e}, SizeOf)]

RECURSIVE TotalBytes(_)
TotalBytes(d) ==
    SumOver(ReadableFilesOf(d), SizeOf)
    + SumOver(SubdirsOf(d), [c \in SubdirsOf(d) |-> TotalBytes(c)])

RECURSIVE TotalCount(_)
TotalCount(d) ==
    Cardinality(ReadableFilesOf(d))
    + SumOver(SubdirsOf(d), [c \in SubdirsOf(d) |-> TotalCount(c)])

\* the readable regular files below d in depth-first traversal order
RECURSIVE DfsFiles(_)
RECURSIVE DfsOfEntries(_)
DfsOfEntries(es) ==
    IF es = <<>> THEN <<>>
    ELSE (IF fs[Head(es)].kind = "dir" THEN DfsFiles(Head(es))
          ELSE IF fs[Head(es)].kind = "file" /\ fs[Head(es)].meta = "ok"
               THEN <<Head(es)>>
               ELSE <<>>)
         \o DfsOfEntries(Tail(es))
DfsFiles(d) == DfsOfEntries(Entries(d))

\* the first file of a non-empty sequence among those of maximum size
FirstLargest(files) ==
    LET i == CHOOSE j \in 1..Len(files) :
                /\ \A k \in 1..Len(files) : fs[files[k]].size <= fs[files[j]].size
                /\ \A k \in 1..(j - 1) : fs[files[k]].size < fs[files[j]].size
    IN files[i]

\* the string a directory is registered under, None when it has none
KeyOf(d) == PathToStr(PathOf(d))

Registered(d) ==
    d # Root /\ fs[d].kind = "dir" /\ KeyOf(d) # None
    /\ KeyOf(d)[1] \in DOMAIN dir_infos

\* the directories whose aggregate is at hand: the start path once its scan
\* returned Ok, and every registered directory
WithAggregate ==
    {d \in Nodes : (d = Root /\ total_info # None) \/ Registered(d)}
AggregateOf(d) == IF d = Root THEN total_info[1] ELSE dir_infos[KeyOf(d)[1]]

OnStack(d) == \E i \in 1..Len(stack) : stack[i].node = d

ScanSucceeded == mainpc \in {"scanned", "done"}
ScanFailed == err /\ stack = <<>>

\* the largest file a scan of d should report
ExpectedLargest(d) ==
    IF DfsFiles(d) = <<>> THEN None
    ELSE LET f == FirstLargest(DfsFiles(d))
         IN Some([path |-> PathOf(f), size |-> fs[f].size])

\* ------------------------------------------------------------------- C1
\* C1 (as claimed): the histogram of every aggregate holds, per lowercased
\* extension, the bytes of all readable regular files anywhere in the
\* directory's subtree (the histograms of the children merged in).
C1_SubtreeHistogram ==
    \A d \in WithAggregate :
        AggregateOf(d).file_types = Histogram(SubtreeFiles(d))

\* C1 (amended): the histogram of every aggregate holds, per lowercased
\* extension, the bytes of the readable regular files that are immediate
\* entries of the directory, and nothing of the files in its subdirectories.
C1_DirectHistogram ==
    \A d \in WithAggregate :
        AggregateOf(d).file_types = Histogram(ReadableFilesOf(d))

\* a finished scan of a start path holding a .T file of its own and a
\* subdirectory with a .t file: the start path's histogram has the bytes of
\* its own file only
C1_Witness ==
    /\ ScanSucceeded
    /\ \E f \in ReadableFilesOf(Root) : \E c \in SubdirsOf(Root) :
       \E g \in ReadableFilesOf(c) :
          /\ fs[f].form = "upper" /\ fs[g].form = "lower"
          /\ fs[f].size > 0 /\ fs[g].size > 0
          /\ Registered(c)
          /\ total_info[1].file_types = (<<"t">> :> fs[f].size)

\* ------------------------------------------------------------------- C2
\* C2: the size of every aggregate (the start path's and each registered
\* one) is the bytes of the directory's immediate readable files plus the
\* sizes of the aggregates of its immediate subdirectories, at any depth.
C2_SizeIsSum ==
    \A d \in WithAggregate :
        /\ AggregateOf(d).size =
              SumOver(ReadableFilesOf(d), SizeOf)
              + SumOver(SubdirsOf(d),
                        [c \in SubdirsOf(d) |->
                            IF Registered(c) THEN AggregateOf(c).size
                            ELSE TotalBytes(c)])
        /\ AggregateOf(d).size = TotalBytes(d)

\* a finished scan with a non-empty directory two levels below the start path
C2_Witness ==
    /\ ScanSucceeded
    /\ \E c \in SubdirsOf(Root) : \E g \in SubdirsOf(c) :
          /\ Registered(c) /\ Registered(g)
          /\ TotalBytes(g) > 0
          /\ total_info[1].size = TotalBytes(g)

\* ------------------------------------------------------------------- C3
\* C3: the file_count of every aggregate is the number of the directory's
\* immediate readable regular files plus the file_counts of the aggregates of
\* its immediate subdirectories; other entries count for nothing.
C3_CountIsSum ==
    \A d \in WithAggregate :
        /\ AggregateOf(d).file_count =
              Cardinality(ReadableFilesOf(d))
              + SumOver(SubdirsOf(d),
                        [c \in SubdirsOf(d) |->
                            IF Registered(c) THEN AggregateOf(c).file_count
                            ELSE TotalCount(c)])
        /\ AggregateOf(d).file_count = TotalCount(d)

\* a finished scan that met an entry that is no file, or an unreadable file,
\* and counted a file in a subdirectory
C3_Witness ==
    /\ ScanSucceeded
    /\ \E n \in Children(Root) :
          fs[n].kind = "other" \/ (fs[n].kind = "file" /\ fs[n].meta = "err")
    /\ \E c \in SubdirsOf(Root) : Registered(c) /\ AggregateOf(c).file_count > 0
    /\ total_info[1].file_count < Cardinality(Nodes) - 1
                                  - Cardinality(SubtreeDirs(Root))

\* ------------------------------------------------------------------- C4
\* C4: the largest_file of every aggregate is None iff the subtree holds no
\* readable regular file, and otherwise the first file, in depth-first
\* traversal order, among those of maximum size in the subtree.
C4_LargestIsFirstMax ==
    \A d \in WithAggregate :
        AggregateOf(d).largest_file = ExpectedLargest(d)

\* a finished scan where two files of the maximum size lie at different
\* depths, the deeper one met first
C4_Witness ==
    /\ ScanSucceeded
    /\ \E c \in SubdirsOf(Root) : \E f \in ReadableFilesOf(c) :
       \E g \in ReadableFilesOf(Root) :
          /\ f < g
          /\ fs[f].size = fs[g].size /\ fs[f].size > 0
          /\ total_info[1].largest_file = Some([path |-> PathOf(f),
                                                size |-> fs[f].size])

\* ------------------------------------------------------------------- C5
\* the aggregate a scan of d should return
ExpectedAggregate(d) ==
    [size |-> TotalBytes(d), file_count |-> TotalCount(d),
     largest_file |-> ExpectedLargest(d),
     file_types |-> Histogram(ReadableFilesOf(d))]

RepresentableDirs == {d \in SubtreeDirs(Root) : KeyOf(d) # None}

\* C5: after a successful scan the keys of the registry are exactly the path
\* strings of the directories below the start path that have one, each with
\* the aggregate of its own scan, and the start path has no entry.
C5_RegistryKeys ==
    ScanSucceeded =>
        /\ DOMAIN dir_infos = {KeyOf(d)[1] : d \in RepresentableDirs}
        /\ Cardinality(DOMAIN dir_infos) = Cardinality(RepresentableDirs)
        /\ \A d \in RepresentableDirs :
              dir_infos[KeyOf(d)[1]] = ExpectedAggregate(d)
        /\ KeyOf(Root)[1] \notin DOMAIN dir_infos

\* a finished scan with a registered directory two levels down and a
\* directory whose name is not UTF-8
C5_Witness ==
    /\ ScanSucceeded
    /\ \E c \in SubdirsOf(Root) : \E g \in SubdirsOf(c) : Registered(g)
    /\ \E d \in SubtreeDirs(Root) : KeyOf(d) = None

\* ------------------------------------------------------------------- C6
\* what holds of a state once a listing failed
C6_State ==
    /\ (\E d \in Nodes : fs[d].kind = "dir" /\ fs[d].list = "denied")
          => ~ScanSucceeded
    /\ err => /\ total_info = None
              /\ report = None
              /\ mainpc \in {"scanning", "failed"}
              /\ mainpc = "failed" => stack = <<>>

\* what a step may do once a listing failed: the failing call and then each
\* enclosing call is left, innermost first, and nothing else changes until
\* main has the error
C6_Step ==
    (err \/ err') =>
        /\ err'
        /\ dir_infos' = dir_infos
        /\ total_info' = None
        /\ report' = None
        /\ stack # <<>> =>
              /\ stack' = SubSeq(stack, 1, Len(stack) - 1)
              /\ mainpc' = "scanning"
        /\ stack = <<>> => stack' = <<>> /\ mainpc' = "failed"

\* C6: when the listing of a directory fails, at the start path or below it,
\* the error leaves every enclosing call of scan_directory without any
\* further entry being processed, the scan of the start path yields the error
\* and no aggregate, and main ends without a report.
C6_ListingFailureAborts == []C6_State /\ [][C6_Step]_vars

\* main ended with the error of an unlistable directory two levels down
C6_Witness ==
    /\ mainpc = "failed"
    /\ \E c \in SubdirsOf(Root) : \E g \in SubdirsOf(c) :
          /\ fs[g].list = "denied"
          /\ fs[c].list = "ok"
          /\ \E n \in Children(Root) : n > g

\* ------------------------------------------------------------------- C7
\* C7 (as claimed): once a scan has failed, nothing registered before the
\* failure is left in the registry its caller holds.
C7_NothingRegisteredAfterFailure == ScanFailed => dir_infos = <<>>

\* C7 (amended): a failing scan undoes nothing: the aggregates registered
\* before the failure stay in the caller's registry, complete and unchanged;
\* they go unseen only because main ends without reading it (no report).
C7_PartialEntriesStayUnreported ==
    /\ [](err => /\ report = None
                 /\ \A d \in Nodes :
                       Registered(d) =>
                          dir_infos[KeyOf(d)[1]] = ExpectedAggregate(d))
    /\ [][err' => dir_infos' = dir_infos /\ report' = None]_vars

\* main ended with an error while the registry holds the aggregate of a
\* subdirectory scanned before the failure
C7_Witness ==
    /\ mainpc = "failed"
    /\ \E c \in SubdirsOf(Root) : \E u \in SubdirsOf(Root) :
          /\ c < u
          /\ fs[u].list = "denied"
          /\ Registered(c)
          /\ dir_infos[KeyOf(c)[1]].file_count > 0

\* ------------------------------------------------------------------- C8
\* C8: a scan of a start path that is no directory (a regular file, or
\* nothing at all) succeeds with the empty aggregate, the one a scan of an
\* empty directory returns, and puts nothing in the registry.
C8_NotADirectoryIsEmpty ==
    /\ fs[Root].kind # "dir" =>
          /\ ~err
          /\ mainpc # "failed"
          /\ dir_infos = <<>>
          /\ (mainpc \in {"start", "scanning"} /\ total_info = None)
             \/ (ScanSucceeded /\ total_info = Some(DirInfoNew))
    /\ (fs[Root].kind = "dir" /\ Children(Root) = {} /\ ScanSucceeded) =>
          total_info = Some(DirInfoNew) /\ dir_infos = <<>>

\* the scan of a regular file has returned
C8_Witness ==
    /\ fs[Root].kind = "file"
    /\ mainpc = "scanned"
    /\ total_info = Some(DirInfoNew)

\* ------------------------------------------------------------------- C9
UnreadableFile(n) == fs[n].kind = "file" /\ fs[n].meta = "err"

\* the step over an unreadable file changes nothing but the iterator
C9_Step ==
    (HasEntry /\ UnreadableFile(Entry) /\ ~err') =>
        /\ stack' = [stack EXCEPT ![Len(stack)].it = @ + 1]
        /\ UNCHANGED <<dir_infos, total_info, mainpc, report>>

\* the results of a scan that met unreadable files are those computed from
\* the readable files alone
C9_State ==
    (ScanSucceeded /\ \E n \in Nodes : UnreadableFile(n)) =>
        /\ total_info = Some(ExpectedAggregate(Root))
        /\ \A d \in RepresentableDirs :
              dir_infos[KeyOf(d)[1]] = ExpectedAggregate(d)

\* C9: a regular file whose metadata cannot be read is passed over: the scan
\* goes on with the next entry, no statistic of its directory or of an
\* ancestor changes, and the results are those of the tree without the file.
C9_UnreadableFileSkipped == [][C9_Step]_vars /\ []C9_State

\* a finished scan that met an unreadable file in a subdirectory and counted
\* the file after it
C9_Witness ==
    /\ ScanSucceeded
    /\ \E c \in SubdirsOf(Root) : \E u \in Children(c) :
       \E f \in ReadableFilesOf(c) :
          /\ UnreadableFile(u)
          /\ u < f
          /\ fs[f].size > 0
          /\ total_info[1].file_count = 1
          /\ total_info[1].size = fs[f].size

\* ------------------------------------------------------------------ C10
\* a registered directory is no longer being traversed, and the directories
\* below it are registered already
C10_State ==
    \A d \in Nodes :
        Registered(d) =>
            /\ ~OnStack(d)
            /\ \A c \in SubtreeDirs(d) : KeyOf(c) # None => Registered(c)

\* an entry of the registry stays and keeps its value
C10_Step ==
    \A k \in DOMAIN dir_infos :
        k \in DOMAIN dir_infos' /\ dir_infos'[k] = dir_infos[k]

\* C10: a directory's aggregate enters the registry only when the traversal
\* of the directory is over, hence after the entries of all directories below
\* it, and an entry of the registry is never changed or replaced afterwards.
C10_InsertedOnceWhenComplete == []C10_State /\ [][C10_Step]_vars

\* the scan is still going on with a directory and a directory below it
\* registered
C10_Witness ==
    /\ mainpc = "scanning" /\ ~err /\ stack # <<>>
    /\ \E c \in SubdirsOf(Root) : \E g \in SubdirsOf(c) :
          /\ Registered(c) /\ Registered(g)
          /\ Top.it <= Len(Entries(Top.node))

====
